---- MODULE Spec2Model ----
(***************************************************************************)
(* Model of nems/metrics/corrcoef.py: the estimators corrcoef, r_floor,    *)
(* _r_single and r_ceiling, over the process-wide numpy random generator.  *)
(*                                                                         *)
(* Numbers.  A sample is a small non-negative integer or NaN (a missing    *)
(* sample).  A float result (a correlation, a mean, a ratio) is kept in    *)
(* fixed point: the integer v stands for v / Scale, and NaN for a          *)
(* not-a-number.  Arrays are sequences: a signal is channels x time, a     *)
(* raster is repeats x channels x time.                                    *)
(*                                                                         *)
(* Random generator.  np.random is a deterministic generator: its state is *)
(* a position in a fixed periodic stream, a draw reads the stream at the   *)
(* position and advances it, seeding jumps to a position.                  *)
(*                                                                         *)
(* numpy is the one the code was written for: np.int is int, a boolean     *)
(* index of another shape than the array raises IndexError, np.corrcoef of *)
(* fewer than two points or of a constant sequence is NaN, and np.argsort  *)
(* keeps equal values in order of position.                                *)
(***************************************************************************)
EXTENDS Integers, Sequences, FiniteSets, TLC

VARIABLES
    pred,       \* result[pred_name].as_continuous(): channels x time
    resp,       \* result[resp_name].as_continuous(): channels x time
    X,          \* the raster handed to _r_single: [nchan, reps (repeats x channels x time)]
    N,          \* the pair-sampling cap handed to _r_single and r_ceiling
    epochs,     \* r_ceiling's epochs, in order: [name, d (folded prediction), X (response raster)]
    rng,        \* position of the process-wide random generator in its stream
    call,       \* the last call: [op, kind, val, rng0, rng1], rng0 and rng1 the generator's
                \* position before and after it
    trace,      \* what the last call computed on the way (its local variables)
    ref         \* an earlier call, remembered for comparison: a call record and fresh,
                \* which is TRUE until another call is made

vars == <<pred, resp, X, N, epochs, rng, call, trace, ref>>

-----------------------------------------------------------------------------
(* Bounds of the model *)

MaxLen == 3         \* longest single-channel signal
MaxMultiLen == 1    \* longest signal given a second channel
MaxReps == 3        \* most repeats of a raster
MaxN == 4           \* largest pair-sampling cap
MaxEpochs == 2      \* most epochs of a prediction signal
RngPeriod == 7      \* period of the random stream
MaxSeed == 2        \* last generator position the signal estimators start from

(* Program constants *)

NumShuffles == 1000
ShuffleCap == 500
DefaultN == 100

(* Number representation *)

NaN == -9999
Scale == 100

-----------------------------------------------------------------------------
(* numpy *)

IsFinite(v) == v # NaN

\* Body(v) for v the value of e, which is computed once
With(e, Body(_)) == CHOOSE r \in {Body(v) : v \in {e}} : TRUE

RECURSIVE SumFn(_)
SumFn(f) ==
    IF DOMAIN f = {} THEN 0
    ELSE LET k == CHOOSE k \in DOMAIN f : TRUE
         IN  f[k] + SumFn([j \in DOMAIN f \ {k} |-> f[j]])

\* sum of x[i] * y[i] over the positions of two equally long integer sequences
Dot(x, y) ==
    LET ps == {<<x[i], y[i]>> : i \in DOMAIN x}
    IN  SumFn([p \in ps |->
                 p[1] * p[2] * Cardinality({i \in DOMAIN x : <<x[i], y[i]>> = p})])

Ones(x) == [i \in DOMAIN x |-> 1]

Abs(a) == IF a < 0 THEN -a ELSE a

\* the largest k in lo..hi with k * k <= a, for lo * lo <= a
RECURSIVE SqrtBetween(_, _, _)
SqrtBetween(lo, hi, a) ==
    IF lo = hi THEN lo
    ELSE LET mid == (lo + hi + 1) \div 2
         IN  IF mid * mid <= a THEN SqrtBetween(mid, hi, a) ELSE SqrtBetween(lo, mid - 1, a)

\* floor of the square root of a, for 0 <= a <= Scale * Scale
ISqrt(a) == SqrtBetween(0, Scale, a)

\* a / b of two fixed-point or integer operands that are not NaN, b # 0, toward zero
QuoTrunc(a, b) ==
    LET q == Abs(a) \div Abs(b)
    IN  IF (a < 0) = (b < 0) THEN q ELSE -q

\* a / b <= c / d for integers a, c >= 0 and b, d > 0, without forming a * d
RECURSIVE FracLeq(_, _, _, _)
FracLeq(a, b, c, d) ==
    IF a \div b # c \div d THEN a \div b < c \div d
    ELSE IF a % b = 0 THEN TRUE
    ELSE IF c % d = 0 THEN FALSE
    ELSE FracLeq(d, c % d, b, a % b)

\* the largest k in lo..hi with k * k * vx * vy <= (c * Scale) * (c * Scale), for c > 0
RECURSIVE CorrBetween(_, _, _, _, _)
CorrBetween(lo, hi, c, vx, vy) ==
    IF lo = hi THEN lo
    ELSE LET mid == (lo + hi + 1) \div 2
         IN  IF FracLeq(mid * mid * vx, c * Scale, c * Scale, vy)
             THEN CorrBetween(mid, hi, c, vx, vy)
             ELSE CorrBetween(lo, mid - 1, c, vx, vy)

\* floor of Scale * |cxy| / sqrt(vx * vy), for vx, vy > 0 and cxy * cxy <= vx * vy
CorrMagnitude(cxy, vx, vy) ==
    IF cxy = 0 THEN 0 ELSE CorrBetween(0, Scale, Abs(cxy), vx, vy)

\* Pearson's r of two equally long sequences of finite samples
Pearson(x, y) ==
    LET n  == Len(x)
        sx == Dot(x, Ones(x))
        sy == Dot(y, Ones(y))
        cxy == n * Dot(x, y) - sx * sy
        vx == n * Dot(x, x) - sx * sx
        vy == n * Dot(y, y) - sy * sy
    IN  IF n < 2 \/ vx = 0 \/ vy = 0 THEN NaN
        ELSE IF cxy < 0 THEN -CorrMagnitude(cxy, vx, vy)
        ELSE CorrMagnitude(cxy, vx, vy)

\* np.corrcoef(x, y)[0, 1]
NpCorrcoef(x, y) == With(<<x, y>>, LAMBDA xy : Pearson(xy[1], xy[2]))

\* np.mean of a sequence of floats
NpMean(s) ==
    IF Len(s) = 0 THEN NaN
    ELSE IF \E i \in DOMAIN s : ~IsFinite(s[i]) THEN NaN
    ELSE QuoTrunc(Dot(s, Ones(s)), Len(s))

\* np.sqrt of a positive float
NpSqrt(a) == ISqrt(a * Scale)

\* a < b of two floats: False when either is NaN
FLess(a, b) == IsFinite(a) /\ IsFinite(b) /\ a < b

\* np.isfinite(a) & np.isfinite(b) of two time series
Mask1(a, b) == [t \in DOMAIN a |-> IsFinite(a[t]) /\ IsFinite(b[t])]

\* a with its missing samples replaced by 0 and nothing removed (np.nan_to_num)
BoolIndex1ZeroFill(a, ff) == [t \in DOMAIN a |-> IF IsFinite(a[t]) THEN a[t] ELSE 0]

\* a[ff] of a time series and a boolean mask of its length
BoolIndex1(a, ff) ==
    With(<<a, ff>>, LAMBDA m :
        With(SelectSeq([t \in 1..Len(m[1]) |-> t], LAMBDA t : m[2][t]), LAMBDA keep :
            [k \in 1..Len(keep) |-> m[1][keep[k]]]))

\* np.isfinite(a) & np.isfinite(b) of two channels x time arrays, broadcast over
\* the channel axis when one of them has a single channel
Mask2(a, b) ==
    LET nc == IF Len(a) > Len(b) THEN Len(a) ELSE Len(b)
        row(m, c) == IF Len(m) = 1 THEN m[1] ELSE m[c]
    IN  [c \in 1..nc |-> Mask1(row(a, c), row(b, c))]

\* np.sum(ff) of a boolean channels x time array
CountTrue(ff) ==
    Cardinality({ct \in {<<c, t>> : c \in DOMAIN ff, t \in 1..Len(ff[1])} :
                   ff[ct[1]][ct[2]]})

\* position of the generator after k draws from position pos
RngAdvance(pos, k) == (pos + k) % RngPeriod

\* numerator of the draw of np.random.rand at stream position pos; the draw is
\* RandAt(pos) / RngPeriod, in [0, 1)
RandAt(pos) == ((pos % RngPeriod) * 5 + 3) % RngPeriod

\* (np.random.rand(n) * len).astype(int), drawn from position pos on
RandIndices(pos, n, len) ==
    [j \in 1..n |-> (RandAt(pos + j - 1) * len) \div RngPeriod]

\* a[idx] of a sequence and a sequence of 0-based indices
Take(a, idx) == With(<<a, idx>>, LAMBDA m : [j \in DOMAIN m[2] |-> m[1][m[2][j] + 1]])

-----------------------------------------------------------------------------
(* Outcomes of a call *)

Returns(v) == [kind |-> "value", val |-> v]
Raises(e) == [kind |-> e, val |-> NaN]

-----------------------------------------------------------------------------
(* corrcoef *)

corrcoef(p, r) ==
    IF Len(p) > 1 THEN Raises("ShapeError")
    ELSE LET ff == Mask2(p, r)
         IN  IF CountTrue(ff) = 0 THEN Returns(0)
             ELSE IF Len(ff) # Len(p) THEN Raises("IndexError")
             ELSE Returns(NpCorrcoef(BoolIndex1(p[1], ff[1]), BoolIndex1(r[1], ff[1])))

-----------------------------------------------------------------------------
(* r_floor *)

\* every sample in each shuffle, however many there are
ShuffleSizeUncapped(len) == len

\* n: how many samples each shuffle uses
ShuffleSize(len) == IF len > ShuffleCap THEN ShuffleCap ELSE len

\* np.int(len(rf) * 0.95)
PercentileIndex(len) == (len * 95) \div 100

\* n1 and n2 of the shuffle that starts drawing at position pos
ShuffleN1(pos, n, len) == RandIndices(pos, n, len)
ShuffleN2(pos, n, len) == RandIndices(pos + n, n, len)

\* np.corrcoef(X1[n1], X2[n2])[0, 1] of the shuffle that starts drawing at pos
ShuffleCorr(X1, X2, n, pos) ==
    NpCorrcoef(Take(X1, ShuffleN1(pos, n, Len(X1))),
               Take(X2, ShuffleN2(pos, n, Len(X2))))

\* rf after the loop; shuffle rr starts drawing 2 * n * (rr - 1) draws after pos,
\* and the stream repeats after RngPeriod positions
ShuffleResults(X1, X2, n, pos) ==
    With([q \in 0..(RngPeriod - 1) |-> ShuffleCorr(X1, X2, n, q)], LAMBDA at :
        [rr \in 1..NumShuffles |-> at[RngAdvance(pos, 2 * n * (rr - 1))]])

\* np.sort(rf[np.isfinite(rf)], 0): the finite results in ascending order, each
\* value as often as it occurs (place k holds the least value that at least k of
\* them do not exceed)
SortFinite(rf) ==
    With(SelectSeq(rf, IsFinite), LAMBDA fin :
      With({fin[i] : i \in DOMAIN fin}, LAMBDA vals :
        With([v \in vals |-> Cardinality({i \in DOMAIN fin : fin[i] <= v})], LAMBDA upto :
          [k \in 1..Len(fin) |->
              CHOOSE v \in vals : upto[v] >= k /\ \A u \in vals : u < v => upto[u] < k])))

\* the call: its outcome, the generator's position after it, and its local variables
r_floor(p, r, pos) ==
    IF Len(p) > 1
    THEN [out |-> Raises("ShapeError"), rng |-> pos, loc |-> <<>>]
    ELSE LET ff == Mask2(p, r)
         IN  IF Len(ff) # Len(p)
             THEN [out |-> Raises("IndexError"), rng |-> pos, loc |-> <<>>]
             ELSE With(<<BoolIndex1(p[1], ff[1]), BoolIndex1(r[1], ff[1])>>, LAMBDA m :
                  LET X1 == m[1]
                      X2 == m[2]
                      n  == ShuffleSize(Len(X1))
                      last == RngAdvance(pos, 2 * n * (NumShuffles - 1))
                  IN  With(ShuffleResults(X1, X2, n, pos), LAMBDA rf :
                        With(SortFinite(rf), LAMBDA srt :
                          [out |-> IF Len(srt) # 0
                                   THEN Returns(srt[PercentileIndex(Len(srt)) + 1])
                                   ELSE Returns(0),
                           rng |-> RngAdvance(pos, 2 * n * NumShuffles),
                           loc |-> [len |-> Len(X1), n |-> n, rf |-> rf,
                                    n1 |-> ShuffleN1(last, n, Len(X1)),
                                    n2 |-> ShuffleN2(last, n, Len(X2))]])))

-----------------------------------------------------------------------------
(* _r_single *)

\* np.int(scipy.special.comb(repcount, 2))
Comb2(repcount) == (repcount * (repcount - 1)) \div 2

\* pairs: every [p1, p2] with p1 < p2, in the order the two loops append them
PairList(repcount) ==
    LET before(p1) == p1 * repcount - Comb2(p1 + 1)
    IN  [k \in 1..Comb2(repcount) |->
           CHOOSE pr \in (0..(repcount - 1)) \X (0..(repcount - 1)) :
              pr[1] < pr[2] /\ before(pr[1]) + (pr[2] - pr[1]) = k]

\* N after "if paircount < N: N = paircount"
PairCap(paircount, Ncap) == IF paircount < Ncap THEN paircount ELSE Ncap

\* the test that guards the unsupported branch
TwoRepeatCase(Ncap) == Ncap = 1

\* np.argsort(r): the 0-based positions of r in ascending order of value, equal
\* values in order of position
ArgSort(r) ==
    With(r, LAMBDA v :
        LET rank(i) == Cardinality({j \in DOMAIN v :
                           v[j] < v[i] \/ (v[j] = v[i] /\ j < i)})
        IN  [k \in 1..Len(v) |-> (CHOOSE i \in DOMAIN v : rank(i) = k - 1) - 1])

\* paircount positions each drawn on its own, so that a position may repeat
ShuffledOrderWithReplacement(pos, paircount) == RandIndices(pos, paircount, paircount)

\* sidx = np.argsort(np.random.rand(paircount)), drawn from position pos on
ShuffledOrder(pos, paircount) == ArgSort([j \in 1..paircount |-> RandAt(pos + j - 1)])

\* np.corrcoef of two time series after removing the positions where either is
\* not finite
MaskedCorr(X1, X2) ==
    With(Mask1(X1, X2), LAMBDA ff :
        NpCorrcoef(BoolIndex1(X1, ff), BoolIndex1(X2, ff)))

\* the lower clamp of the mean reliability, 0.05
RacFloor == (5 * Scale) \div 100

\* "if rac < 0.05: rac = 0.05"
ClampRac(rac) == IF FLess(rac, RacFloor) THEN RacFloor ELSE rac

\* the call: its outcome, the generator's position after it, and its local variables
r_single(Xr, Ncap0, pos) ==
    IF Xr.nchan > 1
    THEN [out |-> Raises("ShapeError"), rng |-> pos, loc |-> <<>>]
    ELSE IF Len(Xr.reps) <= 1
    THEN [out |-> Returns(0), rng |-> pos, loc |-> <<>>]
    ELSE LET repcount == Len(Xr.reps)
             paircount == Comb2(repcount)
             pairs == PairList(repcount)
             Ncap == PairCap(paircount, Ncap0)
         IN  IF TwoRepeatCase(Ncap)
             THEN [out |-> Raises("Unsupported"), rng |-> pos, loc |-> <<>>]
             ELSE With(ShuffledOrder(pos, paircount), LAMBDA sidx :
                  With([nn \in 1..Ncap |-> pairs[sidx[nn] + 1]], LAMBDA used :
                  With([nn \in 1..Ncap |->
                          MaskedCorr(Xr.reps[used[nn][1] + 1][1],
                                     Xr.reps[used[nn][2] + 1][1])], LAMBDA rac :
                      [out |-> Returns(ClampRac(NpMean(rac))),
                       rng |-> RngAdvance(pos, paircount),
                       loc |-> [sidx |-> sidx, used |-> used, rac |-> rac]])))

-----------------------------------------------------------------------------
(* r_ceiling *)

\* epoch_regex = '^STIM_', matched by epoch_names_matching
EpochRegexPrefix == <<"S", "T", "I", "M", "_">>

MatchesEpochRegex(name) ==
    /\ Len(name) >= Len(EpochRegexPrefix)
    /\ SubSeq(name, 1, Len(EpochRegexPrefix)) = EpochRegexPrefix

\* np.sum(np.isfinite(d)) of a folded prediction, trials x channels x time
CountFinite(d) ==
    Cardinality({i \in {<<p, c, t>> : p \in DOMAIN d, c \in 1..Len(d[1]), t \in 1..Len(d[1][1])} :
                   IsFinite(d[i[1]][i[2]][i[3]])})

\* rs / np.sqrt(rac) for rac > 0
NoiseCorrected(rs, rac) ==
    IF ~IsFinite(rs) THEN NaN ELSE QuoTrunc(rs * Scale, NpSqrt(rac))

\* a float times a sample count
Weighted(v, w) == IF ~IsFinite(v) THEN NaN ELSE v * w

\* a + b of two floats
FAdd(a, b) == IF ~IsFinite(a) \/ ~IsFinite(b) THEN NaN ELSE a + b

\* "if rac > 0"
Reliable(rac) == FLess(0, rac)

\* the length of the epoch, missing samples included
LastPairSamplesUnmasked(Xe, d) == Len(d[1][1])

\* X1.shape[-1] after the loop over the repeats: the jointly finite samples of the
\* last repeat and the prediction's first trial
LastPairSamples(Xe, d) ==
    Len(BoolIndex1(Xe.reps[Len(Xe.reps)][1], Mask1(Xe.reps[Len(Xe.reps)][1], d[1][1])))

\* rs: the mean over the repeats of the correlation with the prediction's first trial
MeanTrialCorr(Xe, d) ==
    NpMean([nn \in 1..Len(Xe.reps) |-> MaskedCorr(Xe.reps[nn][1], d[1][1])])

\* a division guarded against n = 0, which then returns 0
FinalDivideGuarded(rnorm_c, isfloat, n) ==
    IF n = 0 THEN Returns(0)
    ELSE Returns(IF IsFinite(rnorm_c) THEN QuoTrunc(rnorm_c, n) ELSE NaN)

\* rnorm_c / n.  rnorm_c is the int 0 until an epoch adds a numpy float to it:
\* int / int with n = 0 raises, a numpy float divided by 0 is not finite.
FinalDivide(rnorm_c, isfloat, n) ==
    IF n = 0
    THEN (IF isfloat THEN Returns(NaN) ELSE Raises("ZeroDivisionError"))
    ELSE Returns(IF IsFinite(rnorm_c) THEN QuoTrunc(rnorm_c, n) ELSE NaN)

\* the loop's state before the first epoch
CeilStart(pos) ==
    [rnorm_c |-> 0, isfloat |-> FALSE, n |-> 0, rng |-> pos, err |-> "none", steps |-> <<>>]

\* what an epoch that adds nothing leaves in the record of the steps
Skipped(st, rac) ==
    [st EXCEPT !.steps = Append(@, [added |-> FALSE, rac |-> rac, rs |-> NaN, w |-> 0,
                                    rnorm_c |-> st.rnorm_c, n |-> st.n])]

\* one pass of "for k, d in folded_pred.items()"; an epoch whose name does not
\* match is not in folded_pred
CeilStep(st, e, Ncap) ==
    IF st.err # "none" THEN st
    ELSE IF ~MatchesEpochRegex(e.name) THEN Skipped(st, NaN)
    ELSE IF ~(CountFinite(e.d) > 0) THEN Skipped(st, NaN)
    ELSE With(r_single(e.X, Ncap, st.rng), LAMBDA c :
        IF c.out.kind # "value"
        THEN [st EXCEPT !.err = c.out.kind, !.rng = c.rng]
        ELSE IF ~Reliable(c.out.val)
        THEN [Skipped(st, c.out.val) EXCEPT !.rng = c.rng]
        ELSE With(<<MeanTrialCorr(e.X, e.d), LastPairSamples(e.X, e.d)>>, LAMBDA m :
            With([rnorm_c |-> FAdd(st.rnorm_c, Weighted(NoiseCorrected(m[1], c.out.val), m[2])),
                  n |-> st.n + m[2]], LAMBDA acc :
                [rnorm_c |-> acc.rnorm_c, isfloat |-> TRUE, n |-> acc.n, rng |-> c.rng,
                 err |-> "none",
                 steps |-> Append(st.steps, [added |-> TRUE, rac |-> c.out.val, rs |-> m[1],
                                             w |-> m[2], rnorm_c |-> acc.rnorm_c,
                                             n |-> acc.n])])))

RECURSIVE CeilLoop(_, _, _, _)
CeilLoop(es, Ncap, st, i) ==
    IF i > Len(es) THEN st
    ELSE With(CeilStep(st, es[i], Ncap), LAMBDA nx : CeilLoop(es, Ncap, nx, i + 1))

\* the call: its outcome, the generator's position after it, and its local variables
r_ceiling(es, Ncap, pos) ==
    With(CeilLoop(es, Ncap, CeilStart(pos), 1), LAMBDA st :
        [out |-> IF st.err # "none" THEN Raises(st.err)
                 ELSE FinalDivide(st.rnorm_c, st.isfloat, st.n),
         rng |-> st.rng,
         loc |-> [steps |-> st.steps, rnorm_c |-> st.rnorm_c, n |-> st.n]])

-----------------------------------------------------------------------------
(* Inputs *)

SampleValues == {NaN, 0, 1}

TimeSeries(len) == [1..len -> SampleValues]

AllNaN(len) == [t \in 1..len |-> NaN]

\* a signal whose first channel is s: one channel, or two (the second a copy of
\* the first, or all missing)
SignalsOver(s) == {<<s>>, <<s, s>>, <<s, AllNaN(Len(s))>>}

SingleChannelPairs ==
    UNION {{<<<<a>>, <<b>>>> : a, b \in TimeSeries(len)} : len \in 0..MaxLen}

MultiChannelPairs ==
    UNION {UNION {SignalsOver(a) \X SignalsOver(b) : a, b \in TimeSeries(len)} :
             len \in 0..MaxMultiLen}

\* a pair of long single-channel signals with more than ShuffleCap jointly finite samples
LongLen == ShuffleCap + 3
LongPred == <<[t \in 1..LongLen |-> IF t = 1 THEN NaN ELSE t % 2]>>
LongResp == <<[t \in 1..LongLen |-> IF t = 2 THEN NaN ELSE (t \div 2) % 2]>>

\* the time series a repeat of a raster is made of
TrialShapes ==
    {<<0, 1, 0>>, <<1, 0, 1>>, <<0, 0, 1>>, <<1, 1, 1>>, <<0, 1, NaN>>, <<NaN, NaN, NaN>>}

\* single-channel rasters of up to MaxReps repeats, and two-channel rasters whose
\* repeats are all alike
Rasters ==
    UNION {{[nchan |-> 1, reps |-> [p \in 1..r |-> <<f[p]>>]] : f \in [1..r -> TrialShapes]} :
             r \in 0..MaxReps}
    \cup {[nchan |-> 2, reps |-> [p \in 1..r |-> <<s, s>>]] : r \in 0..MaxReps, s \in TrialShapes}

Caps == (0..MaxN) \cup {DefaultN}

\* the rasters and the folded predictions r_ceiling's epochs are made of
Raster1(shapes) == [nchan |-> 1, reps |-> [p \in DOMAIN shapes |-> <<shapes[p]>>]]
Steady == Raster1(<<<<0, 1, 0>>, <<0, 1, 0>>, <<0, 1, 0>>>>)
SteadyGap == Raster1(<<<<0, 1, 0>>, <<0, 1, 0>>, <<0, 1, NaN>>>>)
CeilRasters ==
    {Steady, SteadyGap,
     Raster1(<<>>), Raster1(<<<<0, 1, 0>>>>), Raster1(<<<<0, 1, 0>>, <<0, 1, 0>>>>),
     Raster1(<<<<0, 1, 0>>, <<1, 0, 1>>, <<0, 0, 1>>>>),
     Raster1(<<<<1, 1, 1>>, <<1, 1, 1>>, <<1, 1, 1>>>>),
     [nchan |-> 2, reps |-> [p \in 1..3 |-> <<<<0, 1, 0>>, <<0, 1, 0>>>>]]}
Follows == <<<<<<0, 1, 0>>>>>>
CeilPreds ==
    {Follows, <<<<<<0, 0, 1>>>>>>, <<<<<<NaN, NaN, 1>>>>>>, <<<<AllNaN(3)>>>>,
     <<<<AllNaN(3)>>, <<<<0, 1, 0>>>>>>}

\* epochs by name prefix, folded prediction and response raster; the name is
\* completed by the epoch's place, which keeps the names different
EpochKinds ==
    {[prefix |-> EpochRegexPrefix, d |-> d, X |-> Steady] : d \in CeilPreds}
    \cup {[prefix |-> EpochRegexPrefix, d |-> <<<<<<NaN, NaN, 1>>>>>>, X |-> SteadyGap]}
    \cup {[prefix |-> EpochRegexPrefix, d |-> Follows, X |-> Xe] : Xe \in CeilRasters}
    \cup {[prefix |-> pf, d |-> Follows, X |-> Steady] :
            pf \in {<<"R", "E", "F", "_">>, <<"X">> \o EpochRegexPrefix}}

EpochLists ==
    UNION {{[i \in 1..k |-> [name |-> f[i].prefix \o [j \in 1..i |-> "x"],
                             d |-> f[i].d, X |-> f[i].X]] :
              f \in [1..k -> EpochKinds]} : k \in 0..MaxEpochs}

CeilCaps == {1, 2, DefaultN}

\* the cases the repeated calls are compared on: a result container, a raster
\* with its cap, and the epochs of a prediction
Uneven == Raster1(<<<<0, 1, 0>>, <<1, 0, 1>>, <<0, 0, 1>>>>)
RepeatCases ==
    {[pred |-> <<<<0, 1, 1, NaN>>>>, resp |-> <<<<1, 0, 1, 0>>>>, X |-> Uneven, N |-> 2,
      epochs |-> <<[name |-> EpochRegexPrefix \o <<"a">>, d |-> Follows, X |-> Uneven]>>],
     [pred |-> <<<<0, 0, 1>>>>, resp |-> <<<<0, 1, 1>>>>, X |-> SteadyGap, N |-> DefaultN,
      epochs |-> <<[name |-> EpochRegexPrefix \o <<"a">>, d |-> Follows, X |-> Uneven],
                   [name |-> EpochRegexPrefix \o <<"b">>, d |-> Follows, X |-> SteadyGap]>>],
     [pred |-> <<<<0, 1>>, <<0, 1>>>>, resp |-> <<<<0, 1>>>>, X |-> Raster1(<<<<0, 1, 0>>>>),
      N |-> 2, epochs |-> <<>>]}

NoCall == [op |-> "none", kind |-> "none", val |-> NaN, rng0 |-> 0, rng1 |-> 0]
NoRef == [op |-> "none", kind |-> "none", val |-> NaN, rng0 |-> 0, rng1 |-> 0,
          fresh |-> FALSE]
NoRaster == [nchan |-> 1, reps |-> <<>>]

-----------------------------------------------------------------------------
(* Calls *)

\* a generator that is stepped once more by every call after the first
DrawStartAfterFirstCall(pos) == IF call.op = "none" THEN pos ELSE RngAdvance(pos, 1)

\* the position a call starts drawing at: the generator's current one
DrawStart(pos) == pos

\* the remembered call is no longer the last one
AgedRef == [ref EXCEPT !.fresh = FALSE]

CallCorrcoef ==
    \E c \in {corrcoef(pred, resp)} :
        /\ call' = [op |-> "corrcoef", kind |-> c.kind, val |-> c.val,
                    rng0 |-> rng, rng1 |-> rng]
        /\ trace' = <<>>
        /\ ref' = AgedRef
        /\ UNCHANGED <<pred, resp, X, N, epochs, rng>>

CallRFloor ==
    \E c \in {r_floor(pred, resp, DrawStart(rng))} :
        /\ call' = [op |-> "r_floor", kind |-> c.out.kind, val |-> c.out.val,
                    rng0 |-> rng, rng1 |-> c.rng]
        /\ trace' = c.loc
        /\ rng' = c.rng
        /\ ref' = AgedRef
        /\ UNCHANGED <<pred, resp, X, N, epochs>>

CallRSingle ==
    \E c \in {r_single(X, N, DrawStart(rng))} :
        /\ call' = [op |-> "r_single", kind |-> c.out.kind, val |-> c.out.val,
                    rng0 |-> rng, rng1 |-> c.rng]
        /\ trace' = c.loc
        /\ rng' = c.rng
        /\ ref' = AgedRef
        /\ UNCHANGED <<pred, resp, X, N, epochs>>

CallRCeiling ==
    \E c \in {r_ceiling(epochs, N, DrawStart(rng))} :
        /\ call' = [op |-> "r_ceiling", kind |-> c.out.kind, val |-> c.out.val,
                    rng0 |-> rng, rng1 |-> c.rng]
        /\ trace' = c.loc
        /\ rng' = c.rng
        /\ ref' = AgedRef
        /\ UNCHANGED <<pred, resp, X, N, epochs>>

\* the caller seeds the generator: np.random.seed
Seed ==
    \E pos \in 0..(RngPeriod - 1) :
        /\ rng' = pos
        /\ UNCHANGED <<pred, resp, X, N, epochs, call, trace, ref>>

\* the observer keeps the last call to compare a later one with
Remember ==
    /\ call.op # "none"
    /\ ref' = [op |-> call.op, kind |-> call.kind, val |-> call.val,
               rng0 |-> call.rng0, rng1 |-> call.rng1, fresh |-> TRUE]
    /\ UNCHANGED <<pred, resp, X, N, epochs, rng, call, trace>>

-----------------------------------------------------------------------------
(* The signal estimators: corrcoef and r_floor on a result container *)

InitSignal ==
    /\ \E pr \in SingleChannelPairs \cup MultiChannelPairs \cup {<<LongPred, LongResp>>} :
          pred = pr[1] /\ resp = pr[2]
    /\ X = NoRaster
    /\ N = DefaultN
    /\ epochs = <<>>
    /\ rng \in 0..MaxSeed
    /\ call = NoCall
    /\ trace = <<>>
    /\ ref = NoRef

NextSignal == CallCorrcoef \/ CallRFloor

SpecSignal == InitSignal /\ [][NextSignal]_vars

-----------------------------------------------------------------------------
(* What the claims speak of, stated on the inputs *)

\* the positions where both time series are finite
JointFinite(a, b) == {t \in DOMAIN a : a[t] # NaN /\ b[t] # NaN}

\* the subsequence of a at the positions J, in order
RestrictTo(a, J) ==
    With([t \in J |-> Cardinality({u \in J : u <= t})], LAMBDA rank :
        [k \in 1..Cardinality(J) |-> a[CHOOSE t \in J : rank[t] = k]])

SingleChannel == Len(pred) = 1 /\ Len(resp) = 1

\* C1: corrcoef and r_floor raise the multi-channel shape error whenever the
\* prediction or the response has more than one channel.
C1_MultiChannelRejected ==
    (call.op \in {"corrcoef", "r_floor"} /\ (Len(pred) > 1 \/ Len(resp) > 1))
        => call.kind = "ShapeError"

\* C2: on single-channel signals corrcoef returns 0 when no position is finite in
\* both, and otherwise the correlation of the two subsequences at the jointly
\* finite positions.
C2_MaskedCorrelation ==
    (call.op = "corrcoef" /\ SingleChannel) =>
        LET J == JointFinite(pred[1], resp[1])
        IN  /\ call.kind = "value"
            /\ J = {} => call.val = 0
            /\ J # {} => call.val = Pearson(RestrictTo(pred[1], J), RestrictTo(resp[1], J))

\* a position missing in one signal only is dropped, and the remaining points
\* give a correlation that is neither 0 nor NaN
C2_Witness ==
    /\ call.op = "corrcoef" /\ SingleChannel
    /\ \E t \in DOMAIN pred[1] : pred[1][t] = NaN /\ resp[1][t] # NaN
    /\ Cardinality(JointFinite(pred[1], resp[1])) >= 2
    /\ call.kind = "value" /\ call.val # NaN /\ call.val < 0

\* C5: r_floor runs 1000 shuffles of n = min(500, count) indices in [0, count)
\* for each signal, count the number of jointly finite positions, and returns
\* the finite results' element of rank floor(0.95 * their number), or 0 when
\* there is none.
C5_FloorPercentile ==
    (call.op = "r_floor" /\ SingleChannel) =>
        LET count == Cardinality(JointFinite(pred[1], resp[1]))
            n == IF count < 500 THEN count ELSE 500
            F == {i \in DOMAIN trace.rf : trace.rf[i] # NaN}
            k == (95 * Cardinality(F)) \div 100
        IN  /\ call.kind = "value"
            /\ Len(trace.rf) = 1000
            /\ trace.len = count /\ trace.n = n
            /\ Len(trace.n1) = n /\ Len(trace.n2) = n
            /\ \A j \in 1..n : trace.n1[j] \in 0..(count - 1) /\ trace.n2[j] \in 0..(count - 1)
            /\ call.rng1 = (call.rng0 + 2 * n * 1000) % RngPeriod
            /\ F = {} => call.val = 0
            /\ F # {} =>
                 /\ k < Cardinality(F)
                 /\ \E i \in F : trace.rf[i] = call.val
                 /\ Cardinality({i \in F : trace.rf[i] < call.val}) <= k
                 /\ k < Cardinality({i \in F : trace.rf[i] <= call.val})

\* some shuffles give NaN and are dropped, the others leave a percentile
C5_Witness ==
    /\ call.op = "r_floor" /\ SingleChannel /\ call.kind = "value"
    /\ \E i \in DOMAIN trace.rf : trace.rf[i] = NaN
    /\ \E j \in DOMAIN trace.rf : trace.rf[j] # NaN /\ trace.rf[j] # call.val
    /\ call.val # 0

\* the shuffle size is capped: more than 500 jointly finite positions
C5_CapReached == call.op = "r_floor" /\ SingleChannel /\ trace.len > 500 /\ trace.n = 500

-----------------------------------------------------------------------------
(* The reliability estimator: _r_single on a raster *)

InitSingle ==
    /\ pred = <<<<>>>>
    /\ resp = <<<<>>>>
    /\ X \in Rasters
    /\ N \in Caps
    /\ epochs = <<>>
    /\ rng \in 0..(RngPeriod - 1)
    /\ call = NoCall
    /\ trace = <<>>
    /\ ref = NoRef

NextSingle == CallRSingle

SpecSingle == InitSingle /\ [][NextSingle]_vars

Repeats == Len(X.reps)

\* all unordered pairs of distinct repeat indices
AllPairs == {pr \in (0..(Repeats - 1)) \X (0..(Repeats - 1)) : pr[1] < pr[2]}

\* C3: _r_single returns exactly 0 on 0 or 1 repeats, and with the default cap a
\* value >= 0.05 on 3 or more repeats, whatever the data.
C3_ReliabilityFloor ==
    (call.op = "r_single" /\ X.nchan = 1) =>
        /\ Repeats <= 1 => (call.kind = "value" /\ call.val = 0)
        /\ (Repeats >= 3 /\ N = 100) =>
               (call.kind = "value" /\ call.val # NaN /\ 100 * call.val >= 5 * Scale)

\* C4: on exactly 2 repeats _r_single raises the unsupported error for every cap N.
C4_TwoRepeatsRaiseAnyCap ==
    (call.op = "r_single" /\ X.nchan = 1 /\ Repeats = 2) => call.kind = "Unsupported"

\* the same restricted to the caps N >= 1, for which the capped N is 1 on 2 repeats
C4_TwoRepeatsRaise ==
    (call.op = "r_single" /\ X.nchan = 1 /\ Repeats = 2 /\ N >= 1)
        => call.kind = "Unsupported"

\* two repeats with data that would correlate, under the default cap
C4_Witness ==
    /\ call.op = "r_single" /\ X.nchan = 1 /\ Repeats = 2 /\ N = 100
    /\ X.reps[1] = X.reps[2] /\ X.reps[1][1] = <<0, 1, 0>>
    /\ call.kind = "Unsupported"

\* C9: with 3 or more repeats and a cap N >= 2 the pairs correlated are
\* min(N, repeats * (repeats - 1) / 2) different pairs p1 < p2 of repeat
\* indices, the first ones of a permutation of all pairs; all pairs when the cap
\* is not below their number.
C9_PairsWithoutReplacement ==
    (call.op = "r_single" /\ X.nchan = 1 /\ Repeats >= 3 /\ N >= 2) =>
        LET total == (Repeats * (Repeats - 1)) \div 2
            m == IF N < total THEN N ELSE total
            order == [k \in 1..Len(trace.sidx) |->
                        CHOOSE pr \in AllPairs :
                           Cardinality({q \in AllPairs : q[1] < pr[1]
                               \/ (q[1] = pr[1] /\ q[2] < pr[2])}) = trace.sidx[k]]
        IN  /\ call.kind = "value"
            /\ Len(trace.used) = m
            /\ \A k \in 1..m : trace.used[k] \in AllPairs
            /\ \A j, k \in 1..m : j # k => trace.used[j] # trace.used[k]
            /\ Len(trace.sidx) = total
            /\ {trace.sidx[k] : k \in 1..total} = 0..(total - 1)
            /\ \A k \in 1..m : trace.used[k] = order[k]
            /\ N >= total => {trace.used[k] : k \in 1..m} = AllPairs

\* fewer pairs are taken than exist, and not in the order they were listed
C9_Witness ==
    /\ call.op = "r_single" /\ X.nchan = 1 /\ Repeats >= 3 /\ N >= 2
    /\ call.kind = "value"
    /\ Len(trace.used) < Cardinality(AllPairs)
    /\ trace.used[1] # <<0, 1>>

\* C10: with 3 or more repeats and any cap N >= 1 _r_single does not raise the
\* unsupported error and returns a value.
C10_UnsupportedOnlyForTwoRepeats ==
    (call.op = "r_single" /\ X.nchan = 1 /\ Repeats >= 3 /\ N >= 1)
        => (call.kind # "Unsupported" /\ call.kind = "value")

-----------------------------------------------------------------------------
(* The ceiling estimator: r_ceiling on the epochs of a prediction *)

InitCeiling ==
    /\ pred = <<<<>>>>
    /\ resp = <<<<>>>>
    /\ X = NoRaster
    /\ N \in CeilCaps
    /\ epochs \in EpochLists
    /\ rng \in 0..(RngPeriod - 1)
    /\ call = NoCall
    /\ trace = <<>>
    /\ ref = NoRef

NextCeiling == CallRCeiling

SpecCeiling == InitCeiling /\ [][NextCeiling]_vars

\* the epoch's name starts with STIM_
StartsWithStim(name) ==
    /\ Len(name) >= 5
    /\ name[1] = "S" /\ name[2] = "T" /\ name[3] = "I" /\ name[4] = "M" /\ name[5] = "_"

\* the folded prediction has a finite sample somewhere
HasFinite(d) ==
    \E p \in DOMAIN d : \E c \in DOMAIN d[p] : \E t \in DOMAIN d[p][c] : d[p][c][t] # NaN

\* epoch i passes both gates; its reliability is the one the call computed
Contributes(i) ==
    /\ StartsWithStim(epochs[i].name)
    /\ HasFinite(epochs[i].d)
    /\ trace.steps[i].rac # NaN /\ trace.steps[i].rac > 0

\* w: the jointly finite samples of the last repeat and the first prediction trial
EpochWeight(e) == Cardinality(JointFinite(e.X.reps[Len(e.X.reps)][1], e.d[1][1]))

\* rs: the mean over all repeats of the masked correlation with the first
\* prediction trial
EpochRs(e) ==
    NpMean([nn \in 1..Len(e.X.reps) |->
              LET J == JointFinite(e.X.reps[nn][1], e.d[1][1])
              IN  Pearson(RestrictTo(e.X.reps[nn][1], J), RestrictTo(e.d[1][1], J))])

\* rs / sqrt(rac) of epoch i
EpochRatio(i) ==
    IF EpochRs(epochs[i]) = NaN THEN NaN
    ELSE QuoTrunc(EpochRs(epochs[i]) * Scale, ISqrt(trace.steps[i].rac * Scale))

\* the accumulators before epoch i
SumBefore(i) == IF i = 1 THEN 0 ELSE trace.steps[i - 1].rnorm_c
SamplesBefore(i) == IF i = 1 THEN 0 ELSE trace.steps[i - 1].n

\* C7: r_ceiling returns weighted_sum / total_samples, to which exactly the
\* epochs that match ^STIM_, have a finite prediction sample and a reliability
\* > 0 add (rs / sqrt(rac)) * w and w; the other epochs change neither.  When all
\* contributing epochs have the same ratio v and positive weights, it returns v.
C7_WeightedMean ==
    (call.op = "r_ceiling" /\ call.kind = "value") =>
        /\ Len(trace.steps) = Len(epochs)
        /\ \A i \in DOMAIN epochs :
             /\ trace.steps[i].added = Contributes(i)
             /\ Contributes(i) =>
                  /\ trace.steps[i].n = SamplesBefore(i) + EpochWeight(epochs[i])
                  /\ trace.steps[i].rnorm_c =
                       (IF SumBefore(i) = NaN \/ EpochRatio(i) = NaN THEN NaN
                        ELSE SumBefore(i) + EpochRatio(i) * EpochWeight(epochs[i]))
             /\ ~Contributes(i) =>
                  /\ trace.steps[i].n = SamplesBefore(i)
                  /\ trace.steps[i].rnorm_c = SumBefore(i)
        /\ trace.n = SamplesBefore(Len(epochs) + 1)
        /\ trace.rnorm_c = SumBefore(Len(epochs) + 1)
        /\ trace.n > 0 =>
             call.val = (IF trace.rnorm_c = NaN THEN NaN ELSE QuoTrunc(trace.rnorm_c, trace.n))
        /\ \A i \in DOMAIN epochs :
             (/\ Contributes(i) /\ EpochRatio(i) # NaN
              /\ \A j \in DOMAIN epochs :
                   Contributes(j) => (EpochRatio(j) = EpochRatio(i) /\ EpochWeight(epochs[j]) > 0))
                => call.val = EpochRatio(i)

\* two epochs contribute the same ratio with different weights
C7_Witness ==
    /\ call.op = "r_ceiling" /\ call.kind = "value" /\ Len(epochs) = 2
    /\ Contributes(1) /\ Contributes(2)
    /\ EpochWeight(epochs[1]) = 3 /\ EpochWeight(epochs[2]) = 2
    /\ call.val = Scale

\* the final step is reached: no epoch raised
FinalStepReached == call.op = "r_ceiling" /\ call.kind \in {"value", "ZeroDivisionError"}

-----------------------------------------------------------------------------
(* Repeated calls on the same inputs, the caller seeding the generator in between *)

InitRepeat ==
    /\ \E k \in RepeatCases :
          /\ pred = k.pred /\ resp = k.resp /\ X = k.X /\ N = k.N /\ epochs = k.epochs
    /\ rng \in 0..(RngPeriod - 1)
    /\ call = NoCall
    /\ trace = <<>>
    /\ ref = NoRef

NextRepeat ==
    \/ CallCorrcoef
    \/ CallRFloor
    \/ CallRSingle
    \/ CallRCeiling
    \/ Seed
    \/ Remember

SpecRepeat == InitRepeat /\ [][NextRepeat]_vars

====
